---- MODULE Spec2Model ----
(***************************************************************************)
(* The roster allocator of Supercoach2026V2: TeamOptimizer.optimize_team   *)
(* of team_optimizer_budget_alloc.py, one call, statement by statement.    *)
(* One action is one statement block or one iteration of a loop of the     *)
(* method; the variables are the method's locals and the object's          *)
(* selected_team.                                                          *)
(*                                                                         *)
(* A DataFrame is a sequence of row numbers of players_df (the order of    *)
(* the sequence is the order of the frame); a player dict is the row       *)
(* number it was made from.  Money is in dollars.  A ceiling               *)
(* min_prices[p] + buffer * w is kept as the integer 20 * min_prices[p] +  *)
(* (20 * w) * buffer, so that spent + price <= ceiling is compared         *)
(* exactly; on the price grid used here the float comparison of the source *)
(* gives the same answers.                                                 *)
(***************************************************************************)
EXTENDS Integers, Sequences, FiniteSets, TLC

VARIABLES
    POSITION_REQUIREMENTS,  \* config.POSITION_REQUIREMENTS, read by the run
    players_df,             \* the caller's candidate pool (rows)
    strategy,               \* the strategy argument
    pc,                     \* where the call is
    objective,              \* df['objective'], by row, in tenths
    min_prices,             \* min_prices, by entry
    position_budgets,       \* position_budgets, by entry, in twentieths of a dollar
    selected_players,       \* selected_players (rows, in order of selection)
    selected_by,            \* history: the pass that appended each of them
    position_counts,        \* position_counts, by entry of the schema
    total_spent,            \* total_spent
    position,               \* index into PHASE1_ORDER of the loop of phase 1
    iter_df,                \* the frame the current for-loop walks
    iter_at,                \* the row of iter_df the loop is at
    count,                  \* count
    spent,                  \* spent
    remaining_budget,       \* remaining_budget
    bench_needed,           \* bench_needed
    bench_budget,           \* bench_budget
    bench_count,            \* bench_count
    selected_team,          \* self.selected_team
    raised,                 \* the exception that ended the call, or "None"
    report,                 \* what the statistics block printed
    salary_cap,        \* config.SALARY_CAP, read by the run
    fresh,                  \* the call is the first one made on its TeamOptimizer
    calls,                  \* history: the calls the caller has finished with
    starting_df,            \* what get_starting_lineup gave the caller after the call
    bench,                  \* what get_bench_players gave the caller after the call
    bench_size,        \* config.BENCH_SIZE, read by the run of the greedy optimizer
    df                      \* df of the greedy optimizer: the pool, sorted by objective

vars == << POSITION_REQUIREMENTS, players_df, strategy, pc, objective, min_prices,
           position_budgets, selected_players, selected_by, position_counts,
           total_spent, position, iter_df, iter_at, count, spent, remaining_budget,
           bench_needed, bench_budget, bench_count, selected_team, raised, report,
           salary_cap, fresh, calls, starting_df, bench, bench_size, df >>

(***************************************************************************)
(* config.py                                                               *)
(***************************************************************************)
SALARY_CAP == 10000000

BENCH_SIZE == 8

TEAM_SIZE == 30

SHIPPED_REQUIREMENTS ==
    [ DEF |-> [min |-> 6, max |-> 9, on_field |-> 6],
      MID |-> [min |-> 8, max |-> 11, on_field |-> 8],
      RUC |-> [min |-> 2, max |-> 4, on_field |-> 2],
      FWD |-> [min |-> 6, max |-> 9, on_field |-> 6] ]

(***************************************************************************)
(* The inputs of a call.                                                   *)
(***************************************************************************)
NumPlayers == 5

PLANNER_ORDER == << "DEF", "MID", "RUC", "FWD" >>
PHASE1_ORDER == << "MID", "DEF", "FWD", "RUC" >>
REPORT_ORDER == << "DEF", "MID", "RUC", "FWD", "BENCH" >>

\* Schemas that, unlike the shipped one, define the 'BENCH' entry the run reads:
\* four roster places, of which one is a reserve.
MidHeavy ==
    [ DEF |-> [min |-> 1, max |-> 1, on_field |-> 1],
      MID |-> [min |-> 2, max |-> 3, on_field |-> 2],
      RUC |-> [min |-> 0, max |-> 1, on_field |-> 0],
      FWD |-> [min |-> 0, max |-> 1, on_field |-> 0],
      BENCH |-> [min |-> 1, max |-> 1, on_field |-> 0] ]

DefHeavy ==
    [ DEF |-> [min |-> 2, max |-> 3, on_field |-> 2],
      MID |-> [min |-> 1, max |-> 1, on_field |-> 1],
      RUC |-> [min |-> 0, max |-> 1, on_field |-> 0],
      FWD |-> [min |-> 0, max |-> 1, on_field |-> 0],
      BENCH |-> [min |-> 1, max |-> 1, on_field |-> 0] ]

Schemas == { SHIPPED_REQUIREMENTS, MidHeavy, DefHeavy }

\* 'max_score' is the name the main program passes to the other optimizer.
Strategies == { "balanced", "value", "high_score", "max_score" }

Prices == { 500000, 4000000, 6000000 }

\* The rows of a pool are grouped by position, MID rows first: at most three
\* MID, three DEF, one FWD and one RUC.
PositionRank(p) == CASE p = "MID" -> 1 [] p = "DEF" -> 2 [] p = "FWD" -> 3 [] p = "RUC" -> 4

Layouts(n) ==
    { l \in [1..n -> {"MID", "DEF", "FWD", "RUC"}] :
        /\ \A i \in 1..n : \A j \in 1..n :
              i < j => PositionRank(l[i]) <= PositionRank(l[j])
        /\ Cardinality({ i \in 1..n : l[i] = "MID" }) <= 3
        /\ Cardinality({ i \in 1..n : l[i] = "DEF" }) <= 3
        /\ Cardinality({ i \in 1..n : l[i] = "FWD" }) <= 1
        /\ Cardinality({ i \in 1..n : l[i] = "RUC" }) <= 1 }

\* predicted_score falls and adjusted_value rises with the row number, so the
\* strategies rank a category in opposite orders and no two rows tie.
Pool(n, l, pr) ==
    [ i \in 1..n |->
        [ player_id |-> i,
          position |-> l[i],
          price |-> pr[i],
          predicted_score |-> 10 * (n + 1 - i),
          adjusted_value |-> i ] ]

Pools ==
    { << >> } \cup
    { Pool(NumPlayers, l, pr) :
        l \in Layouts(NumPlayers), pr \in [1..NumPlayers -> Prices] }

(***************************************************************************)
(* pandas, as the method uses it.                                          *)
(***************************************************************************)
\* Python's None, and pd.DataFrame(rows)
None == [ none |-> TRUE ]

DataFrame(rows) == [ rows |-> rows ]

Rows == [ i \in 1..Len(players_df) |-> i ]

Price(i) == players_df[i].price

RECURSIVE SumPrice(_)
SumPrice(rows) ==
    IF rows = << >> THEN 0 ELSE Price(Head(rows)) + SumPrice(Tail(rows))

\* frame.sort_values(key, ascending): rows with equal keys keep the order
\* they had in frame (the sort of a short frame is an insertion sort).
SortValues(frame, key, ascending) ==
    LET n == Len(frame)
        Before(j, i) ==
            IF key[frame[j]] = key[frame[i]] THEN j < i
            ELSE IF ascending THEN key[frame[j]] < key[frame[i]]
                 ELSE key[frame[j]] > key[frame[i]]
        Rank(i) == 1 + Cardinality({ j \in 1..n : j # i /\ Before(j, i) })
    IN  [ r \in 1..n |-> frame[CHOOSE i \in 1..n : Rank(i) = r] ]

PriceColumn == [ i \in 1..Len(players_df) |-> players_df[i].price ]

AdjustedValueColumn == [ i \in 1..Len(players_df) |-> players_df[i].adjusted_value ]

\* df[df['position'] == pos]
PositionFrame(pos) ==
    LET Is(i) == players_df[i].position = pos IN SelectSeq(Rows, Is)

\* frame.nsmallest(k, 'price')['price'].sum(): of a frame with fewer than k
\* rows, the sum of all of them.
NSmallestPriceSum(frame, k) ==
    LET sorted == SortValues(frame, PriceColumn, TRUE)
        m == IF k < Len(sorted) THEN k ELSE Len(sorted)
    IN  SumPrice(SubSeq(sorted, 1, m))

\* [p['player_id'] for p in selected_players]
SelectedIds == { players_df[selected_players[k]].player_id : k \in 1..Len(selected_players) }

\* df[~df['player_id'].isin(selected_ids)]
UnselectedFrame ==
    LET Out(i) == players_df[i].player_id \notin SelectedIds IN SelectSeq(Rows, Out)

(***************************************************************************)
(* Before the call: a fresh TeamOptimizer, and the arguments.              *)
(***************************************************************************)
\* __init__, and the locals of a call that has not begun
Constructed ==
    /\ pc = "call"
    /\ objective = << >>
    /\ min_prices = << >>
    /\ position_budgets = << >>
    /\ selected_players = << >>
    /\ selected_by = << >>
    /\ position_counts = << >>
    /\ total_spent = 0
    /\ position = 0
    /\ iter_df = << >>
    /\ iter_at = 0
    /\ count = 0
    /\ spent = 0
    /\ remaining_budget = 0
    /\ bench_needed = 0
    /\ bench_budget = 0
    /\ bench_count = 0
    /\ selected_team = None
    /\ raised = "None"
    /\ report = None
    /\ fresh = TRUE
    /\ calls = << >>
    /\ starting_df = None
    /\ bench = None
    /\ df = << >>

Init ==
    /\ POSITION_REQUIREMENTS \in Schemas
    /\ salary_cap = SALARY_CAP
    /\ bench_size = BENCH_SIZE
    /\ players_df \in Pools
    /\ strategy \in Strategies
    /\ Constructed

\* what the call reads and no statement of it assigns
inputs == << POSITION_REQUIREMENTS, salary_cap, bench_size, players_df, strategy >>

\* the caller's side: no statement of optimize_team reaches it
caller == << fresh, calls, starting_df, bench >>

\* the one local that only the greedy optimizer of team_optimizer.py has
greedy == << df >>

\* line 30 without .copy(): df is the caller's frame
DfIsCallersFrame == TRUE

\* line 30: df = players_df.copy() is a frame of its own, not the caller's
DfAliasesCaller == FALSE

\* a frame with one more column
WithColumn(frame, name, column) ==
    [ i \in 1..Len(frame) |->
        [ f \in DOMAIN frame[i] \cup { name } |->
            IF f = name THEN column[i] ELSE frame[i][f] ] ]

\* lines 34-38: what df['objective'] = ... leaves in the caller's frame
AfterAssignment(column) ==
    IF DfAliasesCaller THEN WithColumn(players_df, "objective", column) ELSE players_df

\* lines 30-38: the copy and its objective column
ChooseObjective ==
    /\ pc = "call"
    /\ \/ /\ strategy = "value"
          /\ objective' = [ i \in 1..Len(players_df) |-> 10 * players_df[i].adjusted_value ]
       \/ /\ strategy = "high_score"
          /\ objective' = [ i \in 1..Len(players_df) |-> 10 * players_df[i].predicted_score ]
       \/ /\ strategy \notin { "value", "high_score" }
          /\ objective' = [ i \in 1..Len(players_df) |->
                              7 * players_df[i].predicted_score
                              + 3 * players_df[i].adjusted_value ]
    /\ players_df' = AfterAssignment(objective')
    /\ pc' = "plan"
    /\ UNCHANGED << POSITION_REQUIREMENTS, salary_cap, bench_size, strategy, caller,
                    greedy, min_prices, position_budgets, selected_players, selected_by,
                    position_counts, total_spent, position, iter_df, iter_at,
                    count, spent, remaining_budget, bench_needed, bench_budget,
                    bench_count, selected_team, raised, report >>

\* lines 41-45: the cheapest way to fill each position's minimum
MinPrices ==
    /\ pc = "plan"
    /\ min_prices' =
          [ pos \in { PLANNER_ORDER[k] : k \in 1..Len(PLANNER_ORDER) } |->
              NSmallestPriceSum(PositionFrame(pos), POSITION_REQUIREMENTS[pos].min) ]
    /\ pc' = "plan_bench"
    /\ UNCHANGED << inputs, caller, greedy, objective, position_budgets, selected_players, selected_by,
                    position_counts, total_spent, position, iter_df, iter_at,
                    count, spent, remaining_budget, bench_needed, bench_budget,
                    bench_count, selected_team, raised, report >>

\* lines 47-49: the reserve; a schema without a 'BENCH' entry ends the call
BenchMinPrice ==
    /\ pc = "plan_bench"
    /\ \/ /\ "BENCH" \notin DOMAIN POSITION_REQUIREMENTS
          /\ raised' = "KeyError"
          /\ pc' = "raised"
          /\ UNCHANGED << min_prices, bench_needed >>
       \/ /\ "BENCH" \in DOMAIN POSITION_REQUIREMENTS
          /\ bench_needed' = POSITION_REQUIREMENTS["BENCH"].min
          /\ min_prices' =
                [ e \in DOMAIN min_prices \cup { "BENCH" } |->
                    IF e = "BENCH"
                    THEN NSmallestPriceSum(Rows, POSITION_REQUIREMENTS["BENCH"].min)
                    ELSE min_prices[e] ]
          /\ pc' = "allocate"
          /\ UNCHANGED raised
    /\ UNCHANGED << inputs, caller, greedy, objective, position_budgets, selected_players, selected_by,
                    position_counts, total_spent, position, iter_df, iter_at,
                    count, spent, remaining_budget, bench_budget, bench_count,
                    selected_team, report >>

\* sum(min_prices.values())
TotalMin ==
    min_prices["MID"] + min_prices["DEF"] + min_prices["FWD"]
    + min_prices["RUC"] + min_prices["BENCH"]

\* line 52
Buffer == salary_cap - TotalMin

\* lines 55-61 with 0.25 for FWD as for DEF
ShareFwdAsDef(e) ==
    CASE e = "MID" -> 7 [] e = "DEF" -> 5 [] e = "FWD" -> 5
      [] e = "RUC" -> 3 [] e = "BENCH" -> 1

\* lines 55-61: the shares 0.35, 0.25, 0.20, 0.15, 0.05, in twentieths
Share(e) ==
    CASE e = "MID" -> 7 [] e = "DEF" -> 5 [] e = "FWD" -> 4
      [] e = "RUC" -> 3 [] e = "BENCH" -> 1

\* lines 51-61 without lines 63 and 65: the selected list and the spent total
\* are kept from the call before
AllocateBudgetKeepsSelected ==
    /\ pc = "allocate"
    /\ position_budgets' =
          [ e \in DOMAIN min_prices |-> 20 * min_prices[e] + Share(e) * Buffer ]
    /\ position_counts' = [ e \in DOMAIN POSITION_REQUIREMENTS |-> 0 ]
    /\ position' = 1
    /\ pc' = "position"
    /\ UNCHANGED << inputs, caller, greedy, objective, min_prices, iter_df, iter_at, count, spent,
                    selected_players, selected_by, total_spent,
                    remaining_budget, bench_needed, bench_budget, bench_count,
                    selected_team, raised, report >>

\* lines 51-65: the ceilings, and the run's counters
AllocateBudget ==
    /\ pc = "allocate"
    /\ position_budgets' =
          [ e \in DOMAIN min_prices |-> 20 * min_prices[e] + Share(e) * Buffer ]
    /\ selected_players' = << >>
    /\ selected_by' = << >>
    /\ position_counts' = [ e \in DOMAIN POSITION_REQUIREMENTS |-> 0 ]
    /\ total_spent' = 0
    /\ position' = 1
    /\ pc' = "position"
    /\ UNCHANGED << inputs, caller, greedy, objective, min_prices, iter_df, iter_at, count, spent,
                    remaining_budget, bench_needed, bench_budget, bench_count,
                    selected_team, raised, report >>

Position == PHASE1_ORDER[position]

Required == POSITION_REQUIREMENTS[Position].min

\* lines 68-74: the head of the loop of phase 1
StartPosition ==
    /\ pc = "position"
    /\ iter_df' = SortValues(PositionFrame(Position), objective, FALSE)
    /\ iter_at' = 1
    /\ count' = 0
    /\ spent' = 0
    /\ pc' = "ranked"
    /\ UNCHANGED << inputs, caller, greedy, objective, min_prices, position_budgets,
                    selected_players, selected_by, position_counts, total_spent, position,
                    remaining_budget, bench_needed, bench_budget, bench_count,
                    selected_team, raised, report >>

\* line 77
RankedAccepts(player) ==
    /\ count < Required
    /\ 20 * (spent + Price(player)) <= position_budgets[Position]

\* lines 76-84: one row of the ranked pass
RankedIter ==
    /\ pc = "ranked"
    /\ iter_at <= Len(iter_df)
    /\ LET player == iter_df[iter_at]
           accept == RankedAccepts(player)
           count1 == IF accept THEN count + 1 ELSE count
       IN  /\ selected_players' =
                 IF accept THEN Append(selected_players, player) ELSE selected_players
           /\ selected_by' =
                 IF accept THEN Append(selected_by, "ranked") ELSE selected_by
           /\ spent' = IF accept THEN spent + Price(player) ELSE spent
           /\ total_spent' = IF accept THEN total_spent + Price(player) ELSE total_spent
           /\ position_counts' =
                 IF accept
                 THEN [position_counts EXCEPT ![Position] = @ + 1]
                 ELSE position_counts
           /\ count' = count1
           /\ IF count1 >= Required
              THEN pc' = "ranked_done" /\ iter_at' = iter_at
              ELSE pc' = pc /\ iter_at' = iter_at + 1
    /\ UNCHANGED << inputs, caller, greedy, objective, min_prices, position_budgets, position,
                    iter_df, remaining_budget, bench_needed, bench_budget,
                    bench_count, selected_team, raised, report >>

\* line 76: the ranked pass ran out of rows
RankedExhausted ==
    /\ pc = "ranked"
    /\ iter_at > Len(iter_df)
    /\ pc' = "ranked_done"
    /\ UNCHANGED << inputs, caller, greedy, objective, min_prices, position_budgets,
                    selected_players, selected_by, position_counts, total_spent, position,
                    iter_df, iter_at, count, spent, remaining_budget, bench_needed,
                    bench_budget, bench_count, selected_team, raised, report >>

\* line 68 again, or line 102 after the last position
NextPc == IF position < Len(PHASE1_ORDER) THEN "position" ELSE "bench"

NextPosition == IF position < Len(PHASE1_ORDER) THEN position + 1 ELSE position

\* lines 87-89: the fallback pass is entered only below the required count
AfterRanked ==
    /\ pc = "ranked_done"
    /\ \/ /\ count < Required
          /\ remaining_budget' = salary_cap - total_spent
          /\ iter_df' = SortValues(iter_df, PriceColumn, TRUE)
          /\ iter_at' = 1
          /\ pc' = "fallback"
          /\ UNCHANGED position
       \/ /\ count >= Required
          /\ pc' = NextPc
          /\ position' = NextPosition
          /\ UNCHANGED << remaining_budget, iter_df, iter_at >>
    /\ UNCHANGED << inputs, caller, greedy, objective, min_prices, position_budgets,
                    selected_players, selected_by, position_counts, total_spent, count, spent,
                    bench_needed, bench_budget, bench_count, selected_team, raised,
                    report >>

\* line 91 without its membership test: every row of cheaper_df is considered
FallbackConsidersAnyRow(player) == players_df[player].player_id \in Nat

\* line 91
FallbackConsiders(player) == players_df[player].player_id \notin SelectedIds

\* line 92 without its price test
FallbackAcceptsAnyPrice(player) == count < Required

\* line 92
FallbackAccepts(player) ==
    /\ count < Required
    /\ Price(player) <= remaining_budget

\* lines 90-99: one row of the category fallback pass
FallbackIter ==
    /\ pc = "fallback"
    /\ iter_at <= Len(iter_df)
    /\ LET player == iter_df[iter_at]
           considered == FallbackConsiders(player)
           accept == considered /\ FallbackAccepts(player)
           count1 == IF accept THEN count + 1 ELSE count
       IN  /\ selected_players' =
                 IF accept THEN Append(selected_players, player) ELSE selected_players
           /\ selected_by' =
                 IF accept THEN Append(selected_by, "fallback") ELSE selected_by
           /\ total_spent' = IF accept THEN total_spent + Price(player) ELSE total_spent
           /\ remaining_budget' =
                 IF accept THEN remaining_budget - Price(player) ELSE remaining_budget
           /\ position_counts' =
                 IF accept
                 THEN [position_counts EXCEPT ![Position] = @ + 1]
                 ELSE position_counts
           /\ count' = count1
           /\ IF considered /\ count1 >= Required
              THEN /\ pc' = NextPc
                   /\ position' = NextPosition
                   /\ iter_at' = iter_at
              ELSE /\ pc' = pc
                   /\ position' = position
                   /\ iter_at' = iter_at + 1
    /\ UNCHANGED << inputs, caller, greedy, objective, min_prices, position_budgets, iter_df,
                    spent, bench_needed, bench_budget, bench_count, selected_team,
                    raised, report >>

\* line 90: the fallback pass ran out of rows
FallbackExhausted ==
    /\ pc = "fallback"
    /\ iter_at > Len(iter_df)
    /\ pc' = NextPc
    /\ position' = NextPosition
    /\ UNCHANGED << inputs, caller, greedy, objective, min_prices, position_budgets,
                    selected_players, selected_by, position_counts, total_spent, iter_df,
                    iter_at, count, spent, remaining_budget, bench_needed,
                    bench_budget, bench_count, selected_team, raised, report >>

\* lines 102-106 with bench_count kept from the call before
StartBenchKeepsCount ==
    /\ pc = "bench"
    /\ bench_budget' = salary_cap - total_spent
    /\ iter_df' = SortValues(UnselectedFrame, AdjustedValueColumn, FALSE)
    /\ iter_at' = 1
    /\ pc' = "bench_ranked"
    /\ UNCHANGED << inputs, caller, greedy, objective, min_prices, position_budgets,
                    selected_players, selected_by, position_counts, total_spent, position,
                    count, spent, remaining_budget, bench_needed, bench_count,
                    selected_team, raised, report >>

\* lines 102-106 with remaining_df cut to its first bench_needed rows
StartBenchHeadOnly ==
    /\ pc = "bench"
    /\ bench_budget' = salary_cap - total_spent
    /\ iter_df' =
          LET sorted == SortValues(UnselectedFrame, AdjustedValueColumn, FALSE)
          IN  SubSeq(sorted, 1, IF bench_needed < Len(sorted) THEN bench_needed ELSE Len(sorted))
    /\ iter_at' = 1
    /\ bench_count' = 0
    /\ pc' = "bench_ranked"
    /\ UNCHANGED << inputs, caller, greedy, objective, min_prices, position_budgets,
                    selected_players, selected_by, position_counts, total_spent, position,
                    count, spent, remaining_budget, bench_needed, selected_team,
                    raised, report >>

\* lines 102-106: the head of phase 2
StartBench ==
    /\ pc = "bench"
    /\ bench_budget' = salary_cap - total_spent
    /\ iter_df' = SortValues(UnselectedFrame, AdjustedValueColumn, FALSE)
    /\ iter_at' = 1
    /\ bench_count' = 0
    /\ pc' = "bench_ranked"
    /\ UNCHANGED << inputs, caller, greedy, objective, min_prices, position_budgets,
                    selected_players, selected_by, position_counts, total_spent, position,
                    count, spent, remaining_budget, bench_needed, selected_team,
                    raised, report >>

\* lines 108 and 120
BenchAccepts(player) ==
    /\ bench_count < bench_needed
    /\ Price(player) <= bench_budget

\* lines 107-113: one row of the reserve pass; the loop has no break
BenchIter ==
    /\ pc = "bench_ranked"
    /\ iter_at <= Len(iter_df)
    /\ LET player == iter_df[iter_at]
           accept == BenchAccepts(player)
       IN  /\ selected_players' =
                 IF accept THEN Append(selected_players, player) ELSE selected_players
           /\ selected_by' =
                 IF accept THEN Append(selected_by, "bench") ELSE selected_by
           /\ bench_budget' = IF accept THEN bench_budget - Price(player) ELSE bench_budget
           /\ total_spent' = IF accept THEN total_spent + Price(player) ELSE total_spent
           /\ position_counts' =
                 IF accept
                 THEN [position_counts EXCEPT !["BENCH"] = @ + 1]
                 ELSE position_counts
           /\ bench_count' = IF accept THEN bench_count + 1 ELSE bench_count
    /\ iter_at' = iter_at + 1
    /\ UNCHANGED << inputs, caller, greedy, pc, objective, min_prices, position_budgets, position,
                    iter_df, count, spent, remaining_budget, bench_needed,
                    selected_team, raised, report >>

\* lines 116-118: the reserve fallback pass is entered only when short
AfterBench ==
    /\ pc = "bench_ranked"
    /\ iter_at > Len(iter_df)
    /\ \/ /\ bench_count < bench_needed
          /\ iter_df' = SortValues(UnselectedFrame, PriceColumn, TRUE)
          /\ iter_at' = 1
          /\ pc' = "bench_fallback"
       \/ /\ bench_count >= bench_needed
          /\ pc' = "create"
          /\ UNCHANGED << iter_df, iter_at >>
    /\ UNCHANGED << inputs, caller, greedy, objective, min_prices, position_budgets,
                    selected_players, selected_by, position_counts, total_spent, position,
                    count, spent, remaining_budget, bench_needed, bench_budget,
                    bench_count, selected_team, raised, report >>

\* lines 119-127: one row of the reserve fallback pass
BenchFallbackIter ==
    /\ pc = "bench_fallback"
    /\ iter_at <= Len(iter_df)
    /\ LET player == iter_df[iter_at]
           accept == BenchAccepts(player)
           count1 == IF accept THEN bench_count + 1 ELSE bench_count
       IN  /\ selected_players' =
                 IF accept THEN Append(selected_players, player) ELSE selected_players
           /\ selected_by' =
                 IF accept THEN Append(selected_by, "bench_fallback") ELSE selected_by
           /\ bench_budget' = IF accept THEN bench_budget - Price(player) ELSE bench_budget
           /\ total_spent' = IF accept THEN total_spent + Price(player) ELSE total_spent
           /\ position_counts' =
                 IF accept
                 THEN [position_counts EXCEPT !["BENCH"] = @ + 1]
                 ELSE position_counts
           /\ bench_count' = count1
           /\ IF count1 >= bench_needed
              THEN pc' = "create" /\ iter_at' = iter_at
              ELSE pc' = pc /\ iter_at' = iter_at + 1
    /\ UNCHANGED << inputs, caller, greedy, objective, min_prices, position_budgets, position,
                    iter_df, count, spent, remaining_budget, bench_needed,
                    selected_team, raised, report >>

\* line 119: the reserve fallback pass ran out of rows
BenchFallbackExhausted ==
    /\ pc = "bench_fallback"
    /\ iter_at > Len(iter_df)
    /\ pc' = "create"
    /\ UNCHANGED << inputs, caller, greedy, objective, min_prices, position_budgets,
                    selected_players, selected_by, position_counts, total_spent, position,
                    iter_df, iter_at, count, spent, remaining_budget, bench_needed,
                    bench_budget, bench_count, selected_team, raised, report >>

\* line 130: pd.DataFrame(selected_players)
CreateTeam ==
    /\ pc = "create"
    /\ selected_team' = DataFrame(selected_players)
    /\ pc' = "statistics"
    /\ UNCHANGED << inputs, caller, greedy, objective, min_prices, position_budgets,
                    selected_players, selected_by, position_counts, total_spent, position,
                    iter_df, iter_at, count, spent, remaining_budget, bench_needed,
                    bench_budget, bench_count, raised, report >>

\* lines 145-147: the mark printed for one entry
StatusMark(e) ==
    /\ position_counts[e] >= POSITION_REQUIREMENTS[e].min
    /\ position_counts[e] <= POSITION_REQUIREMENTS[e].max

\* lines 133-150: the statistics; a frame made of no dict has no 'price' column
Statistics ==
    /\ pc = "statistics"
    /\ \/ /\ selected_team.rows = << >>
          /\ raised' = "KeyError"
          /\ pc' = "raised"
          /\ UNCHANGED report
       \/ /\ selected_team.rows # << >>
          /\ report' =
                [ players |-> Len(selected_team.rows),
                  total_cost |-> SumPrice(selected_team.rows),
                  within_budget |-> SumPrice(selected_team.rows) <= salary_cap,
                  status |-> [ e \in { REPORT_ORDER[k] : k \in 1..Len(REPORT_ORDER) } |->
                                 StatusMark(e) ] ]
          /\ pc' = "returned"
          /\ UNCHANGED raised
    /\ UNCHANGED << inputs, caller, greedy, objective, min_prices, position_budgets,
                    selected_players, selected_by, position_counts, total_spent, position,
                    iter_df, iter_at, count, spent, remaining_budget, bench_needed,
                    bench_budget, bench_count, selected_team >>

Next ==
    \/ ChooseObjective
    \/ MinPrices
    \/ BenchMinPrice
    \/ AllocateBudget
    \/ StartPosition
    \/ RankedIter
    \/ RankedExhausted
    \/ AfterRanked
    \/ FallbackIter
    \/ FallbackExhausted
    \/ StartBench
    \/ BenchIter
    \/ AfterBench
    \/ BenchFallbackIter
    \/ BenchFallbackExhausted
    \/ CreateTeam
    \/ Statistics

Spec == Init /\ [][Next]_vars

(***************************************************************************)
(* One call against a schema with two reserve places.                      *)
(***************************************************************************)
ReservePlayers == 5

\* a schema that defines 'BENCH' with two reserve places
ReserveTwo ==
    [ DEF |-> [min |-> 1, max |-> 3, on_field |-> 1],
      MID |-> [min |-> 1, max |-> 1, on_field |-> 1],
      RUC |-> [min |-> 0, max |-> 1, on_field |-> 0],
      FWD |-> [min |-> 0, max |-> 1, on_field |-> 0],
      BENCH |-> [min |-> 2, max |-> 2, on_field |-> 0] ]

\* one MID row, then DEF rows
ReserveLayout(n) == [ i \in 1..n |-> IF i = 1 THEN "MID" ELSE "DEF" ]

ReservePools ==
    { << >> } \cup
    { Pool(ReservePlayers, ReserveLayout(ReservePlayers), pr) :
        pr \in [1..ReservePlayers -> Prices] }

InitReserve ==
    /\ POSITION_REQUIREMENTS \in { SHIPPED_REQUIREMENTS, ReserveTwo }
    /\ salary_cap = SALARY_CAP
    /\ bench_size = BENCH_SIZE
    /\ players_df \in ReservePools
    /\ strategy \in Strategies
    /\ Constructed

SpecReserve == InitReserve /\ [][Next]_vars

(***************************************************************************)
(* The accessors, lines 152-177: what the caller reads after a call.       *)
(***************************************************************************)
LINEUP_ORDER == << "DEF", "MID", "RUC", "FWD" >>

\* an exception, where a frame was expected
Raise(exception) == [ raised |-> exception ]

PredictedScoreColumn == [ i \in 1..Len(players_df) |-> players_df[i].predicted_score ]

\* team[team['position'] == pos]
TeamPositionFrame(team, pos) ==
    LET Is(r) == players_df[r].position = pos IN SelectSeq(team, Is)

\* frame.head(k) in place of nlargest: the first k rows, whatever their score
HeadOfFrame(frame, k) == SubSeq(frame, 1, IF k < Len(frame) THEN k ELSE Len(frame))

\* frame.nlargest(k, 'predicted_score'): by falling score, rows of equal
\* score in the order of frame (keep='first'); of a short frame, all rows
NLargestPredictedScore(frame, k) ==
    LET sorted == SortValues(frame, PredictedScoreColumn, FALSE)
        m == IF k < Len(sorted) THEN k ELSE Len(sorted)
    IN  SubSeq(sorted, 1, m)

\* lines 159-167: pd.concat of the top on_field rows of each position
RECURSIVE ConcatTopPlayers(_, _)
ConcatTopPlayers(team, k) ==
    IF k > Len(LINEUP_ORDER) THEN << >>
    ELSE NLargestPredictedScore(TeamPositionFrame(team, LINEUP_ORDER[k]),
                                POSITION_REQUIREMENTS[LINEUP_ORDER[k]].on_field)
         \o ConcatTopPlayers(team, k + 1)

\* lines 152-168; a frame made of no dict has no 'position' column
StartingLineup ==
    IF selected_team = None THEN Raise("ValueError")
    ELSE IF selected_team.rows = << >> THEN Raise("KeyError")
    ELSE DataFrame(ConcatTopPlayers(selected_team.rows, 1))

\* lines 170-177
BenchPlayers ==
    IF selected_team = None THEN Raise("ValueError")
    ELSE IF selected_team.rows = << >> THEN Raise("KeyError")
    ELSE LET starting == ConcatTopPlayers(selected_team.rows, 1)
             starting_ids == { players_df[starting[k]].player_id : k \in 1..Len(starting) }
             Out(r) == players_df[r].player_id \notin starting_ids
         IN  DataFrame(SelectSeq(selected_team.rows, Out))

\* the call is over: it returned, or it raised
CallOver == pc \in { "returned", "raised" }

\* the caller asks for the starting lineup of the roster of the call
GetStartingLineup ==
    /\ CallOver
    /\ starting_df = None
    /\ starting_df' = StartingLineup
    /\ UNCHANGED << inputs, greedy, fresh, calls, bench, pc, objective, min_prices,
                    position_budgets, selected_players, selected_by, position_counts,
                    total_spent, position, iter_df, iter_at, count, spent,
                    remaining_budget, bench_needed, bench_budget, bench_count,
                    selected_team, raised, report >>

\* the caller asks for the bench of the roster of the call
GetBenchPlayers ==
    /\ CallOver
    /\ bench = None
    /\ bench' = BenchPlayers
    /\ UNCHANGED << inputs, greedy, fresh, calls, starting_df, pc, objective, min_prices,
                    position_budgets, selected_players, selected_by, position_counts,
                    total_spent, position, iter_df, iter_at, count, spent,
                    remaining_budget, bench_needed, bench_budget, bench_count,
                    selected_team, raised, report >>

(***************************************************************************)
(* A caller that runs the allocator again: on the same pool or on the pool *)
(* with its rows in the opposite order, under the same cap or a higher     *)
(* one, on a new TeamOptimizer.                                            *)
(***************************************************************************)
\* the rows of a frame as the dicts they stand for
Dicts(frame) ==
    IF "rows" \in DOMAIN frame
    THEN DataFrame([ k \in 1..Len(frame.rows) |-> players_df[frame.rows[k]] ])
    ELSE frame

\* what the caller keeps of a call it has finished with
Outcome ==
    [ players_df |-> players_df,
      strategy |-> strategy,
      salary_cap |-> salary_cap,
      fresh |-> fresh,
      raised |-> raised,
      returned |-> IF pc = "returned" THEN Dicts(selected_team) ELSE None,
      selected_team |-> Dicts(selected_team),
      starting |-> Dicts(starting_df),
      bench |-> Dicts(bench) ]

\* the caller has read both accessors after the call
Observed == CallOver /\ starting_df # None /\ bench # None

Caps == { SALARY_CAP, SALARY_CAP + 2000000 }

Reverse(frame) == [ k \in 1..Len(frame) |-> frame[Len(frame) + 1 - k] ]

\* three MID rows, then two DEF rows, player_id in row order; either every
\* row has the same scores, or predicted_score falls and adjusted_value rises
TiedScores == [ i \in 1..5 |-> [ predicted_score |-> 50, adjusted_value |-> 5 ] ]

SpreadScores == [ i \in 1..5 |-> [ predicted_score |-> 10 * (6 - i), adjusted_value |-> i ] ]

TiePool(pr, sc) ==
    [ i \in 1..5 |->
        [ player_id |-> i,
          position |-> IF i <= 3 THEN "MID" ELSE "DEF",
          price |-> pr[i],
          predicted_score |-> sc[i].predicted_score,
          adjusted_value |-> sc[i].adjusted_value ] ]

TiePrices == { 500000, 3000000, 6000000 }

TiePools ==
    { << >> } \cup
    { TiePool(pr, sc) : pr \in [1..5 -> TiePrices], sc \in { TiedScores, SpreadScores } }

InitPair ==
    /\ POSITION_REQUIREMENTS \in { SHIPPED_REQUIREMENTS, MidHeavy }
    /\ salary_cap \in Caps
    /\ bench_size = BENCH_SIZE
    /\ players_df \in TiePools
    /\ strategy \in { "balanced", "value", "high_score" }
    /\ Constructed

\* TeamOptimizer().optimize_team(...), once more
CallVariant ==
    /\ Observed
    /\ calls = << >>
    /\ calls' = << Outcome >>
    /\ \E cap \in Caps : \E reversed \in BOOLEAN :
          /\ cap >= salary_cap
          /\ salary_cap' = cap
          /\ players_df' = IF reversed THEN Reverse(players_df) ELSE players_df
    /\ fresh' = TRUE
    /\ selected_team' = None
    /\ raised' = "None"
    /\ report' = None
    /\ starting_df' = None
    /\ bench' = None
    /\ pc' = "call"
    /\ UNCHANGED << POSITION_REQUIREMENTS, bench_size, greedy, strategy, objective, min_prices,
                    position_budgets, selected_players, selected_by, position_counts,
                    total_spent, position, iter_df, iter_at, count, spent,
                    remaining_budget, bench_needed, bench_budget, bench_count >>

NextPair ==
    \/ Next
    \/ GetStartingLineup
    \/ GetBenchPlayers
    \/ CallVariant

SpecPair == InitPair /\ [][NextPair]_vars

(***************************************************************************)
(* A caller that makes several calls, each on the TeamOptimizer of the     *)
(* call before or on a new one.                                            *)
(***************************************************************************)
MaxCalls == 3

AllCheap == TiePool([ i \in 1..5 |-> 500000 ], TiedScores)

DearMids == TiePool(<< 4000000, 4000000, 6000000, 500000, 500000 >>, SpreadScores)

AllDear == TiePool([ i \in 1..5 |-> 6000000 ], SpreadScores)

CallInputs ==
    { [ players_df |-> AllCheap, strategy |-> "value" ],
      [ players_df |-> Reverse(AllCheap), strategy |-> "value" ],
      [ players_df |-> DearMids, strategy |-> "value" ],
      [ players_df |-> DearMids, strategy |-> "high_score" ],
      [ players_df |-> AllDear, strategy |-> "balanced" ],
      [ players_df |-> << >>, strategy |-> "balanced" ] }

InitCalls ==
    /\ POSITION_REQUIREMENTS \in { SHIPPED_REQUIREMENTS, MidHeavy }
    /\ salary_cap = SALARY_CAP
    /\ bench_size = BENCH_SIZE
    /\ \E input \in CallInputs :
          /\ players_df = input.players_df
          /\ strategy = input.strategy
    /\ Constructed

\* line 14: the selected_team of a new TeamOptimizer
NewInstance == None

\* optimize_team(...) once more, on the same TeamOptimizer or on a new one
CallAgain ==
    /\ Observed
    /\ Len(calls) + 1 < MaxCalls
    /\ calls' = Append(calls, Outcome)
    /\ \E input \in CallInputs :
          /\ players_df' = input.players_df
          /\ strategy' = input.strategy
    /\ \E new \in BOOLEAN :
          /\ fresh' = new
          /\ selected_team' = IF new THEN NewInstance ELSE selected_team
    /\ raised' = "None"
    /\ report' = None
    /\ starting_df' = None
    /\ bench' = None
    /\ pc' = "call"
    /\ UNCHANGED << POSITION_REQUIREMENTS, salary_cap, bench_size, greedy, objective, min_prices,
                    position_budgets, selected_players, selected_by, position_counts,
                    total_spent, position, iter_df, iter_at, count, spent,
                    remaining_budget, bench_needed, bench_budget, bench_count >>

NextCalls ==
    \/ Next
    \/ GetStartingLineup
    \/ GetBenchPlayers
    \/ CallAgain

SpecCalls == InitCalls /\ [][NextCalls]_vars

(***************************************************************************)
(* The greedy optimizer: TeamOptimizer.optimize_team of team_optimizer.py, *)
(* lines 15-148.  The file holds a second, older copy of the two phases    *)
(* after line 148, out of indentation; the method modelled here is the     *)
(* first copy, with the return that ends the second.  It shares the        *)
(* variables of the allocator above: selected is selected_players,         *)
(* selected_for_pos is count, and a member's 'onfield' is True when        *)
(* selected_by says "phase1".                                              *)
(***************************************************************************)
GREEDY_ORDER == << "DEF", "MID", "RUC", "FWD" >>

\* the locals of the allocator above that the greedy optimizer does not have
alloc == << min_prices, position_budgets, total_spent, spent, bench_needed,
            bench_budget, report >>

\* lines 35-45: the objective of a row
GreedyObjective(i) ==
    IF strategy = "max_score" THEN players_df[i].overall_rank_score
    ELSE IF strategy = "value" THEN players_df[i].adjusted_value
    ELSE players_df[i].predicted_score * players_df[i].adjusted_value

\* line 32: df = players_df.copy() is a frame of its own, not the caller's
GreedyDfAliasesCaller == FALSE

\* lines 37-45: what df['objective'] = ... leaves in the caller's frame; the
\* sort of line 49 makes a new frame, and 'onfield' goes into the dicts
GreedyAfterAssignment(column) ==
    IF GreedyDfAliasesCaller
    THEN WithColumn(players_df, "objective", column)
    ELSE players_df

\* lines 32-53: the objective column, the sorted frame and the counters
GreedyPrepare ==
    /\ pc = "g_call"
    /\ objective' = [ i \in 1..Len(players_df) |-> GreedyObjective(i) ]
    /\ players_df' = GreedyAfterAssignment(objective')
    /\ df' = SortValues(Rows, [ i \in 1..Len(players_df) |-> GreedyObjective(i) ], FALSE)
    /\ selected_players' = << >>
    /\ selected_by' = << >>
    /\ remaining_budget' = salary_cap
    /\ position_counts' = [ e \in DOMAIN POSITION_REQUIREMENTS |-> 0 ]
    /\ position' = 1
    /\ pc' = "g_position"
    /\ UNCHANGED << POSITION_REQUIREMENTS, salary_cap, bench_size, strategy, caller,
                    alloc, iter_df, iter_at, count, bench_count, selected_team, raised >>

\* line 56
TotalOnfield ==
    POSITION_REQUIREMENTS["DEF"].on_field + POSITION_REQUIREMENTS["MID"].on_field
    + POSITION_REQUIREMENTS["RUC"].on_field + POSITION_REQUIREMENTS["FWD"].on_field

GreedyPosition == GREEDY_ORDER[position]

\* line 67
OnfieldNeeded == POSITION_REQUIREMENTS[GreedyPosition].on_field

\* df[df['position'] == pos], in the order of df
SortedPositionFrame(pos) ==
    LET Is(i) == players_df[i].position = pos IN SelectSeq(df, Is)

\* lines 66-82: the head of the loop of phase 1; target_price divides by
\* onfield_needed
GreedyStartPosition ==
    /\ pc = "g_position"
    /\ IF OnfieldNeeded = 0
       THEN /\ raised' = "ZeroDivisionError"
            /\ pc' = "raised"
            /\ UNCHANGED << iter_df, iter_at, count >>
       ELSE /\ iter_df' = SortedPositionFrame(GreedyPosition)
            /\ iter_at' = 1
            /\ count' = 0
            /\ pc' = "g_phase1"
            /\ UNCHANGED raised
    /\ UNCHANGED << inputs, caller, greedy, alloc, objective, selected_players,
                    selected_by, position_counts, position, remaining_budget,
                    bench_count, selected_team >>

\* lines 84 and 120 with the cap in the place of remaining_budget
AffordableUnderCap(player) == Price(player) <= salary_cap

\* lines 84 and 120: player['price'] <= remaining_budget
Affordable(player) == Price(player) <= remaining_budget

\* line 87: predicted_score >= the 0.6 quantile (linear interpolation) of the
\* predicted_score of the position, compared in fifths
AboveQuantile(player) ==
    LET frame == SortValues(PositionFrame(GreedyPosition), PredictedScoreColumn, TRUE)
        n == Len(frame)
        lo == (3 * (n - 1)) \div 5
        part == (3 * (n - 1)) % 5
        v(k) == players_df[frame[k + 1]].predicted_score
        hi == IF lo + 1 < n THEN lo + 1 ELSE lo
    IN  5 * players_df[player].predicted_score >= 5 * v(lo) + part * (v(hi) - v(lo))

\* line 90: price <= target_price * 1.5, where target_price is
\* (onfield_needed / total_onfield) * SALARY_CAP * 0.7 / onfield_needed, that
\* is 20 * price * total_onfield <= 21 * SALARY_CAP; prices and caps are
\* multiples of 100,000 and are compared in that unit
NearTargetPrice(player) ==
    20 * (Price(player) \div 100000) * TotalOnfield <= 21 * (salary_cap \div 100000)

\* lines 86-93: accept, or the last slots that must be filled
GreedyAccepts(player) ==
    \/ count >= OnfieldNeeded - 1
    \/ IF strategy = "max_score"
       THEN AboveQuantile(player) \/ count >= OnfieldNeeded - 2
       ELSE NearTargetPrice(player)

\* line 66 again, or line 104 after the last position
GreedyNextPc == IF position < Len(GREEDY_ORDER) THEN "g_position" ELSE "g_bench"

\* lines 83-102: one row of phase 1
GreedyPhase1Iter ==
    /\ pc = "g_phase1"
    /\ iter_at <= Len(iter_df)
    /\ LET player == iter_df[iter_at]
           accept == /\ count < OnfieldNeeded
                     /\ Affordable(player)
                     /\ GreedyAccepts(player)
           count1 == IF accept THEN count + 1 ELSE count
       IN  /\ selected_players' =
                 IF accept THEN Append(selected_players, player) ELSE selected_players
           /\ selected_by' =
                 IF accept THEN Append(selected_by, "phase1") ELSE selected_by
           /\ remaining_budget' =
                 IF accept THEN remaining_budget - Price(player) ELSE remaining_budget
           /\ position_counts' =
                 IF accept
                 THEN [position_counts EXCEPT ![GreedyPosition] = @ + 1]
                 ELSE position_counts
           /\ count' = count1
           /\ IF count1 >= OnfieldNeeded
              THEN /\ pc' = GreedyNextPc
                   /\ position' = NextPosition
                   /\ iter_at' = iter_at
              ELSE /\ pc' = pc
                   /\ position' = position
                   /\ iter_at' = iter_at + 1
    /\ UNCHANGED << inputs, caller, greedy, alloc, objective, iter_df, bench_count,
                    selected_team, raised >>

\* line 83: phase 1 ran out of rows of the position
GreedyPhase1Exhausted ==
    /\ pc = "g_phase1"
    /\ iter_at > Len(iter_df)
    /\ pc' = GreedyNextPc
    /\ position' = NextPosition
    /\ UNCHANGED << inputs, caller, greedy, alloc, objective, selected_players,
                    selected_by, position_counts, iter_df, iter_at, count,
                    remaining_budget, bench_count, selected_team, raised >>

\* line 107 without its isin filter: every row of df
SortedFrameWithSelected == df

\* df[~df['player_id'].isin(selected_ids)], in the order of df
SortedUnselectedFrame ==
    LET Out(i) == players_df[i].player_id \notin SelectedIds IN SelectSeq(df, Out)

\* lines 104-115: the head of phase 2
GreedyStartBench ==
    /\ pc = "g_bench"
    /\ iter_df' = SortValues(SortedUnselectedFrame, PriceColumn, TRUE)
    /\ iter_at' = 1
    /\ bench_count' = 0
    /\ pc' = "g_phase2"
    /\ UNCHANGED << inputs, caller, greedy, alloc, objective, selected_players,
                    selected_by, position_counts, position, count, remaining_budget,
                    selected_team, raised >>

\* lines 119-121 with the target_bench_price of line 112 as a further limit
GreedyBenchAcceptsUnderTarget(player) ==
    /\ bench_count < bench_size
    /\ Affordable(player)
    /\ Price(player) * bench_size <= remaining_budget
    /\ position_counts[players_df[player].position]
          < POSITION_REQUIREMENTS[players_df[player].position].max

\* lines 119-121
GreedyBenchAccepts(player) ==
    /\ bench_count < bench_size
    /\ Affordable(player)
    /\ position_counts[players_df[player].position]
          < POSITION_REQUIREMENTS[players_df[player].position].max

\* lines 116-130: one row of phase 2
GreedyPhase2Iter ==
    /\ pc = "g_phase2"
    /\ iter_at <= Len(iter_df)
    /\ LET player == iter_df[iter_at]
           accept == GreedyBenchAccepts(player)
           count1 == IF accept THEN bench_count + 1 ELSE bench_count
       IN  /\ selected_players' =
                 IF accept THEN Append(selected_players, player) ELSE selected_players
           /\ selected_by' =
                 IF accept THEN Append(selected_by, "phase2") ELSE selected_by
           /\ remaining_budget' =
                 IF accept THEN remaining_budget - Price(player) ELSE remaining_budget
           /\ position_counts' =
                 IF accept
                 THEN [position_counts EXCEPT ![players_df[player].position] = @ + 1]
                 ELSE position_counts
           /\ bench_count' = count1
           /\ IF count1 >= bench_size
              THEN pc' = "g_create" /\ iter_at' = iter_at
              ELSE pc' = pc /\ iter_at' = iter_at + 1
    /\ UNCHANGED << inputs, caller, greedy, alloc, objective, position, iter_df,
                    count, selected_team, raised >>

\* line 116: phase 2 ran out of rows
GreedyPhase2Exhausted ==
    /\ pc = "g_phase2"
    /\ iter_at > Len(iter_df)
    /\ pc' = "g_create"
    /\ UNCHANGED << inputs, caller, greedy, alloc, objective, selected_players,
                    selected_by, position_counts, position, iter_df, iter_at, count,
                    remaining_budget, bench_count, selected_team, raised >>

\* lines 138-148 and the return: pd.DataFrame(selected) with its 'onfield'
\* column; of a frame made of no dict, ['price'] raises
GreedyCreateTeam ==
    /\ pc = "g_create"
    /\ selected_team' =
          [ rows |-> selected_players,
            onfield |-> [ k \in 1..Len(selected_by) |-> selected_by[k] = "phase1" ] ]
    /\ IF selected_players = << >>
       THEN raised' = "KeyError" /\ pc' = "raised"
       ELSE raised' = raised /\ pc' = "returned"
    /\ UNCHANGED << inputs, caller, greedy, alloc, objective, selected_players,
                    selected_by, position_counts, position, iter_df, iter_at, count,
                    remaining_budget, bench_count >>

\* the rows of the roster whose 'onfield' is the given value
OnfieldIs(value) ==
    LET at == { k \in 1..Len(selected_team.rows) : selected_team.onfield[k] = value }
    IN  [ n \in 1..Cardinality(at) |->
            selected_team.rows[CHOOSE k \in at :
                Cardinality({ j \in at : j <= k }) = n] ]

\* lines 233-239: the rows marked onfield; a frame made of no dict has no
\* 'onfield' column
GreedyStartingLineup ==
    IF selected_team = None THEN Raise("ValueError")
    ELSE IF selected_team.rows = << >> THEN Raise("KeyError")
    ELSE DataFrame(OnfieldIs(TRUE))

\* lines 241-247: the rows marked bench
GreedyBenchPlayers ==
    IF selected_team = None THEN Raise("ValueError")
    ELSE IF selected_team.rows = << >> THEN Raise("KeyError")
    ELSE DataFrame(OnfieldIs(FALSE))

\* the caller asks the greedy optimizer for the starting lineup
GreedyGetStartingLineup ==
    /\ CallOver
    /\ starting_df = None
    /\ starting_df' = GreedyStartingLineup
    /\ UNCHANGED << inputs, greedy, alloc, fresh, calls, bench, pc, objective,
                    selected_players, selected_by, position_counts, position, iter_df,
                    iter_at, count, remaining_budget, bench_count, selected_team, raised >>

\* the caller asks the greedy optimizer for the bench
GreedyGetBenchPlayers ==
    /\ CallOver
    /\ bench = None
    /\ bench' = GreedyBenchPlayers
    /\ UNCHANGED << inputs, greedy, alloc, fresh, calls, starting_df, pc, objective,
                    selected_players, selected_by, position_counts, position, iter_df,
                    iter_at, count, remaining_budget, bench_count, selected_team, raised >>

GreedyNext ==
    \/ GreedyPrepare
    \/ GreedyStartPosition
    \/ GreedyPhase1Iter
    \/ GreedyPhase1Exhausted
    \/ GreedyStartBench
    \/ GreedyPhase2Iter
    \/ GreedyPhase2Exhausted
    \/ GreedyCreateTeam
    \/ GreedyGetStartingLineup
    \/ GreedyGetBenchPlayers

\* The inputs of a call of the greedy optimizer.
GreedyPlayers == 7

\* a schema of six on-field places, read with a bench of two
GreedySmall ==
    [ DEF |-> [min |-> 1, max |-> 2, on_field |-> 1],
      MID |-> [min |-> 3, max |-> 4, on_field |-> 3],
      RUC |-> [min |-> 1, max |-> 1, on_field |-> 1],
      FWD |-> [min |-> 1, max |-> 2, on_field |-> 1] ]

GreedyConfigs ==
    { [ POSITION_REQUIREMENTS |-> SHIPPED_REQUIREMENTS, BENCH_SIZE |-> BENCH_SIZE ],
      [ POSITION_REQUIREMENTS |-> GreedySmall, BENCH_SIZE |-> 2 ] }

\* four MID rows, then a DEF, a RUC and a FWD row, and DEF rows after them;
\* the three scores rank the rows in three different orders
GreedyPool(n, pr) ==
    [ i \in 1..n |->
        [ player_id |-> i,
          position |-> IF i <= 4 THEN "MID"
                       ELSE IF i = 6 THEN "RUC"
                       ELSE IF i = 7 THEN "FWD" ELSE "DEF",
          price |-> pr[i],
          predicted_score |-> 10 * i,
          adjusted_value |-> (5 * i) % 11,
          overall_rank_score |-> (3 * i) % 11 ] ]

GreedyPools ==
    { << >> } \cup
    { GreedyPool(GreedyPlayers, pr) : pr \in [1..GreedyPlayers -> Prices] }

GreedyInit ==
    /\ \E c \in GreedyConfigs :
          /\ POSITION_REQUIREMENTS = c.POSITION_REQUIREMENTS
          /\ bench_size = c.BENCH_SIZE
    /\ salary_cap = SALARY_CAP
    /\ players_df \in GreedyPools
    /\ strategy \in { "max_score", "value", "balanced" }
    /\ pc = "g_call"
    /\ objective = << >>
    /\ min_prices = << >>
    /\ position_budgets = << >>
    /\ selected_players = << >>
    /\ selected_by = << >>
    /\ position_counts = << >>
    /\ total_spent = 0
    /\ position = 0
    /\ iter_df = << >>
    /\ iter_at = 0
    /\ count = 0
    /\ spent = 0
    /\ remaining_budget = 0
    /\ bench_needed = 0
    /\ bench_budget = 0
    /\ bench_count = 0
    /\ selected_team = None
    /\ raised = "None"
    /\ report = None
    /\ fresh = TRUE
    /\ calls = << >>
    /\ starting_df = None
    /\ bench = None
    /\ df = << >>

GreedySpec == GreedyInit /\ [][GreedyNext]_vars

(***************************************************************************)
(* What the statements of the specification speak of.                      *)
(***************************************************************************)
Categories == { "MID", "DEF", "FWD", "RUC" }

Returned == pc = "returned"

\* every category has at least its minimum number of candidates
EnoughCandidates ==
    \A pos \in Categories :
        Len(PositionFrame(pos)) >= POSITION_REQUIREMENTS[pos].min

\* the planner has summed the minimum costs of the four categories and the reserve
Planned == DOMAIN min_prices = Categories \cup { "BENCH" }

\* the run has set up its counters and entered the selection phases
Selecting == Planned /\ pc \notin { "call", "plan", "plan_bench", "allocate" }

\* N: the category minimums and the reserve slots
RosterSize ==
    POSITION_REQUIREMENTS["MID"].min + POSITION_REQUIREMENTS["DEF"].min
    + POSITION_REQUIREMENTS["FWD"].min + POSITION_REQUIREMENTS["RUC"].min
    + POSITION_REQUIREMENTS["BENCH"].min

\* the members of a category in a list of players, whichever pass chose them
Members(team, pos) ==
    Cardinality({ k \in 1..Len(team) : players_df[team[k]].position = pos })

Passes == { selected_by[k] : k \in 1..Len(selected_by) }

\* C1: with enough candidates in every category and the planner's summed
\* minimum costs within the cap, the returned roster costs no more than
\* SALARY_CAP.
C1_SpendWithinCap ==
    (Returned /\ EnoughCandidates /\ Buffer >= 0)
        => SumPrice(selected_team.rows) <= SALARY_CAP

\* C2: no player_id occurs twice in the selected list, at any point of the run.
C2_NoDuplicateIds ==
    \A i \in 1..Len(selected_players) : \A j \in 1..Len(selected_players) :
        i # j => players_df[selected_players[i]].player_id
                 # players_df[selected_players[j]].player_id

\* C2 witness: a returned roster with members from the ranked pass, from the
\* category fallback pass and from the reserve pass.
C2_Witness ==
    /\ Returned
    /\ { "ranked", "fallback", "bench" } \subseteq Passes

\* C3: with enough candidates in every category and the planner's summed
\* minimum costs within the cap, the returned roster has exactly N members and
\* every category's count lies within [min, max].
C3_FullRosterWithinBounds ==
    (Returned /\ EnoughCandidates /\ Buffer >= 0)
        => /\ Len(selected_team.rows) = RosterSize
           /\ \A pos \in Categories :
                 /\ Members(selected_team.rows, pos) >= POSITION_REQUIREMENTS[pos].min
                 /\ Members(selected_team.rows, pos) <= POSITION_REQUIREMENTS[pos].max

\* C4: when the cap minus the summed minimum costs is negative, the call fails
\* before the first candidate is selected, so no candidate is ever selected.
C4_InfeasibleSelectsNothing ==
    (Planned /\ Buffer < 0)
        => /\ selected_players = << >>
           /\ selected_team = None

\* C5: when some category has fewer candidates than its minimum, the call
\* fails and returns no roster.
C5_InsufficientReturnsNoRoster ==
    (Planned /\ ~EnoughCandidates) => ~Returned

\* C6: a strategy name outside the recognized set fails the call before any
\* candidate is selected.
C6_UnknownStrategySelectsNothing ==
    strategy \notin { "balanced", "value", "high_score" }
        => /\ selected_players = << >>
           /\ ~Returned

\* C7: with buffer >= 0 and enough candidates in every category, the category
\* phase ends with every category holding exactly its minimum count.
C7_CategoryPhaseFillsMinimums ==
    (pc = "bench" /\ EnoughCandidates /\ Buffer >= 0)
        => \A pos \in Categories :
              position_counts[pos] = POSITION_REQUIREMENTS[pos].min

\* C8: in the returned roster no category has more members than its max,
\* members of the category phase and of the reserve passes counted together.
C8_CategoryMaxRespected ==
    Returned
        => \A pos \in Categories :
              Members(selected_team.rows, pos) <= POSITION_REQUIREMENTS[pos].max

\* a category or the reserve ended below its target count
Shortfall ==
    \/ \E pos \in Categories : position_counts[pos] < POSITION_REQUIREMENTS[pos].min
    \/ bench_count < bench_needed

\* C9: when a category or the reserve cannot reach its target count, the call
\* does not raise; it returns the candidates selected so far and stores them
\* in selected_team, whatever the size of the shortfall.
C9_ShortfallReturnsPartialRoster ==
    (Selecting /\ pc \in { "returned", "raised" } /\ Shortfall)
        => /\ raised = "None"
           /\ selected_team = DataFrame(selected_players)

\* the summary printed no failure mark: within budget, and every entry in range
ReportedFeasible ==
    /\ report # None
    /\ report.within_budget
    /\ \A e \in DOMAIN report.status : report.status[e]

\* C10: the summary reports the roster as feasible only if its size is N, its
\* cost is within the cap and every category's actual number of members lies
\* within [min, max].
C10_FeasibleReportIsSound ==
    (Returned /\ ReportedFeasible)
        => /\ Len(selected_team.rows) = RosterSize
           /\ SumPrice(selected_team.rows) <= SALARY_CAP
           /\ \A pos \in Categories :
                 /\ Members(selected_team.rows, pos) >= POSITION_REQUIREMENTS[pos].min
                 /\ Members(selected_team.rows, pos) <= POSITION_REQUIREMENTS[pos].max

(***************************************************************************)
(* Statements about several calls.                                         *)
(***************************************************************************)
\* the calls the caller has finished with, the one just observed included
History == IF Observed THEN Append(calls, Outcome) ELSE calls

\* two calls had the same pool, strategy and cap (the schema never changes)
SameInputs(a, b) ==
    /\ a.players_df = b.players_df
    /\ a.strategy = b.strategy
    /\ a.salary_cap = b.salary_cap

\* two calls ended the same way, with the same roster in the same order and
\* the same starting lineup and bench
SameRoster(a, b) ==
    /\ a.raised = b.raised
    /\ a.returned = b.returned
    /\ a.starting = b.starting
    /\ a.bench = b.bench

\* C11: two calls on identical pool, schema and strategy give an identical
\* roster, the same members in the same order with the same active and
\* reserve labels, whether the later call is made on the same TeamOptimizer
\* or on a new one.
C11_Idempotent ==
    \A i \in 1..Len(History) : \A j \in 1..Len(History) :
        (i < j /\ SameInputs(History[i], History[j]))
            => SameRoster(History[i], History[j])

\* C11 witness: three calls on the same inputs that each returned a roster,
\* the second on the TeamOptimizer of the first, the third on a new one.
C11_Witness ==
    /\ Len(History) = 3
    /\ SameInputs(History[1], History[2])
    /\ SameInputs(History[2], History[3])
    /\ History[1].returned # None
    /\ ~History[2].fresh
    /\ History[3].fresh
    /\ Len(History[3].bench.rows) > 0

\* two calls had the same rows in their pools, in whatever order
SameRows(a, b) ==
    { a.players_df[k] : k \in 1..Len(a.players_df) }
        = { b.players_df[k] : k \in 1..Len(b.players_df) }

\* the player_ids of the roster a call left in selected_team
MemberIds(c) ==
    IF "rows" \in DOMAIN c.selected_team
    THEN { c.selected_team.rows[k].player_id : k \in 1..Len(c.selected_team.rows) }
    ELSE { }

\* C12: the set of roster members does not depend on the order of the rows
\* of the pool (candidates that tie on the key of a pass being taken in
\* player_id order): two calls with the same strategy and cap on pools with
\* the same rows select the same set of player_ids.
C12_RowOrderIndependent ==
    \A i \in 1..Len(History) : \A j \in 1..Len(History) :
        ( /\ i < j
          /\ History[i].strategy = History[j].strategy
          /\ History[i].salary_cap = History[j].salary_cap
          /\ SameRows(History[i], History[j]) )
            => MemberIds(History[i]) = MemberIds(History[j])

RECURSIVE SumPredictedScore(_)
SumPredictedScore(dicts) ==
    IF dicts = << >> THEN 0
    ELSE Head(dicts).predicted_score + SumPredictedScore(Tail(dicts))

\* starting['predicted_score'].sum() of the lineup a call's roster gave
LineupScore(c) == SumPredictedScore(c.starting.rows)

\* C13: with the pool, the schema and the strategy held fixed, the summed
\* predicted_score of the starting lineup under a cap B2 is at least the one
\* under a cap B1 <= B2.
C13_CapMonotone ==
    \A i \in 1..Len(History) : \A j \in 1..Len(History) :
        ( /\ i < j
          /\ History[i].players_df = History[j].players_df
          /\ History[i].strategy = History[j].strategy
          /\ History[i].salary_cap <= History[j].salary_cap
          /\ History[i].returned # None
          /\ History[j].returned # None )
            => LineupScore(History[j]) >= LineupScore(History[i])

\* the caller holds the starting lineup and the bench of a roster
Labelled ==
    /\ Observed
    /\ "rows" \in DOMAIN starting_df
    /\ "rows" \in DOMAIN bench

\* C14: of two roster members of one category with equal predicted_score,
\* one active and one reserve, the active one has the lower price, or the
\* same price and the smaller player_id.
C14_TieActiveIsCheaper ==
    Labelled =>
        \A a \in 1..Len(starting_df.rows) : \A b \in 1..Len(bench.rows) :
            LET active == players_df[starting_df.rows[a]]
                reserve == players_df[bench.rows[b]]
            IN  ( /\ active.position = reserve.position
                  /\ active.predicted_score = reserve.predicted_score )
                    => \/ active.price < reserve.price
                       \/ /\ active.price = reserve.price
                          /\ active.player_id < reserve.player_id

(***************************************************************************)
(* Statements about the greedy optimizer.                                  *)
(***************************************************************************)
\* C15: at every step of the greedy run remaining_budget is >= 0 and equals
\* SALARY_CAP minus the prices of the members selected so far; no member,
\* the ones of the 'must fill last slots' override included, is accepted at
\* a price above remaining_budget, so the roster costs <= SALARY_CAP.
C15_GreedyBudget ==
    pc # "g_call"
        => /\ remaining_budget >= 0
           /\ remaining_budget = SALARY_CAP - SumPrice(selected_players)
           /\ pc = "returned" => SumPrice(selected_team.rows) <= SALARY_CAP

\* C15 witness: a returned roster that used the whole cap, with a member
\* that phase 1 took over the target price because a last slot had to be
\* filled, and with a candidate left out.
C15_Witness ==
    /\ pc = "returned"
    /\ strategy = "value"
    /\ remaining_budget = 0
    /\ Len(selected_players) < Len(players_df)
    /\ \E k \in 1..Len(selected_players) :
          /\ selected_by[k] = "phase1"
          /\ ~NearTargetPrice(selected_players[k])

\* each position has on_field candidates, and the on_field cheapest of the
\* four positions together cost no more than the cap
OnfieldAffordable ==
    /\ \A pos \in Categories :
          Len(PositionFrame(pos)) >= POSITION_REQUIREMENTS[pos].on_field
    /\ NSmallestPriceSum(PositionFrame("DEF"), POSITION_REQUIREMENTS["DEF"].on_field)
          + NSmallestPriceSum(PositionFrame("MID"), POSITION_REQUIREMENTS["MID"].on_field)
          + NSmallestPriceSum(PositionFrame("RUC"), POSITION_REQUIREMENTS["RUC"].on_field)
          + NSmallestPriceSum(PositionFrame("FWD"), POSITION_REQUIREMENTS["FWD"].on_field)
          <= SALARY_CAP

\* C16: when each position has on_field candidates and the on_field cheapest
\* of the four positions together cost no more than SALARY_CAP, phase 1 of
\* the greedy optimizer ends with every position holding exactly its
\* on_field count, under every strategy.
C16_Phase1FillsOnfield ==
    (pc = "g_bench" /\ OnfieldAffordable)
        => \A pos \in Categories :
              position_counts[pos] = POSITION_REQUIREMENTS[pos].on_field

(***************************************************************************)
(* Statements about one call of the allocator.                             *)
(***************************************************************************)
\* the columns a candidate pool comes with
PoolColumns == { "player_id", "position", "price", "predicted_score", "adjusted_value" }

PickedFor(passes, pos) ==
    Cardinality({ k \in 1..Len(selected_players) :
                    /\ selected_by[k] \in passes
                    /\ players_df[selected_players[k]].position = pos })

\* C18: a call on a TeamOptimizer that was used before returns the roster
\* that a call with the same inputs on a new TeamOptimizer returns, and
\* leaves it in selected_team; and when a call returns, selected_team is the
\* selected list of this call alone, total_spent is the price of that list
\* and position_counts counts only the picks of this call.
C18_NoCrossRunState ==
    /\ \A i \in 1..Len(History) : \A j \in 1..Len(History) :
          (History[i].fresh /\ ~History[j].fresh /\ SameInputs(History[i], History[j]))
              => /\ History[j].returned = History[i].returned
                 /\ History[j].selected_team = History[i].selected_team
    /\ pc = "returned" =>
          /\ selected_team = DataFrame(selected_players)
          /\ \A k \in 1..Len(selected_players) : selected_players[k] \in 1..Len(players_df)
          /\ total_spent = SumPrice(selected_players)
          /\ \A pos \in { "MID", "DEF", "FWD", "RUC" } :
                position_counts[pos] = PickedFor({ "ranked", "fallback" }, pos)
          /\ position_counts["BENCH"]
                = Len(selected_players)
                  - Cardinality({ k \in 1..Len(selected_players) :
                                    selected_by[k] \in { "ranked", "fallback" } })

\* C18 witness: a first call on a new TeamOptimizer, a second call on it
\* with other inputs that returned another roster, and a third call on it
\* with the inputs of the first that returned a roster.
C18_Witness ==
    /\ Len(History) = 3
    /\ History[1].fresh /\ ~History[2].fresh /\ ~History[3].fresh
    /\ SameInputs(History[1], History[3])
    /\ ~SameInputs(History[1], History[2])
    /\ History[2].returned # None
    /\ History[3].returned # None
    /\ History[3].returned # History[2].returned

(***************************************************************************)
(* Statements about the passes of the category phase.                      *)
(***************************************************************************)
\* the step appends a row to the selected list
Accepting == Len(selected_players') = Len(selected_players) + 1

\* C19: every row the ranked pass accepts satisfies, when it is accepted,
\* (a) spent + price <= the ceiling of the category (position_budgets is
\* kept in twentieths) and (b) price <= SALARY_CAP - total_spent.
C19_RankedAcceptWithinBoth ==
    [][ (pc = "ranked" /\ Accepting) =>
            /\ 20 * (spent + Price(iter_df[iter_at])) <= position_budgets[Position]
            /\ Price(iter_df[iter_at]) <= SALARY_CAP - total_spent ]_vars

\* the rows of a category whose player_id is not in the selected list
UnselectedOf(pos) ==
    { i \in 1..Len(players_df) :
        /\ players_df[i].position = pos
        /\ players_df[i].player_id \notin SelectedIds }

\* a frame of rows of one category in ascending order of price
AscendingPriceOf(frame, pos) ==
    /\ \A k \in 1..Len(frame) : players_df[frame[k]].position = pos
    /\ \A k \in 1..Len(frame) : \A l \in 1..Len(frame) :
          k < l => Price(frame[k]) <= Price(frame[l])

\* C20: the category fallback pass is entered only from a ranked pass that
\* ended below the required count; it walks rows of that category in
\* ascending order of price and accepts a row only if it is not selected yet
\* and its price <= SALARY_CAP - total_spent; and when it ends with the
\* category still below its required count, no unselected row of the
\* category has a price <= SALARY_CAP - total_spent.
C20_CategoryFallback ==
    [][ /\ (pc # "fallback" /\ pc' = "fallback") =>
              /\ pc = "ranked_done"
              /\ count < Required
              /\ AscendingPriceOf(iter_df', Position)
        /\ (pc = "fallback" /\ Accepting) =>
              /\ iter_df[iter_at] \in UnselectedOf(Position)
              /\ Price(iter_df[iter_at]) <= SALARY_CAP - total_spent
              /\ \A k \in 1..(iter_at - 1) :
                    iter_df[k] \in UnselectedOf(Position)
                        => Price(iter_df[k]) > SALARY_CAP - total_spent
        /\ (pc = "fallback" /\ pc' # "fallback" /\ count' < Required) =>
              \A i \in UnselectedOf(Position) : Price(i) > SALARY_CAP - total_spent
      ]_vars

\* C20 witness: a call has returned in which the fallback pass of one
\* category accepted a row, and the fallback pass of a category ended below
\* the required count with unselected rows of that category left over.
C20_Witness ==
    /\ pc = "returned"
    /\ \E pos \in { "MID", "DEF", "FWD", "RUC" } : PickedFor({ "fallback" }, pos) >= 1
    /\ \E pos \in { "MID", "DEF", "FWD", "RUC" } :
          /\ position_counts[pos] < POSITION_REQUIREMENTS[pos].min
          /\ UnselectedOf(pos) # { }

(***************************************************************************)
(* Statements about the reserve phase.                                     *)
(***************************************************************************)
\* the members of the selected list that the category phase picked
CategoryPicks ==
    LET Is(k) == selected_by[k] \in { "ranked", "fallback" }
    IN  [ n \in 1..Cardinality({ k \in 1..Len(selected_players) : Is(k) }) |->
            selected_players[CHOOSE k \in 1..Len(selected_players) :
                /\ Is(k)
                /\ Cardinality({ j \in 1..k : Is(j) }) = n] ]

\* the rows that were unselected when the category phase ended
UnselectedAfterCategories ==
    LET ids == { players_df[CategoryPicks[k]].player_id : k \in 1..Len(CategoryPicks) }
        Out(i) == players_df[i].player_id \notin ids
    IN  SelectSeq(Rows, Out)

\* the reserve places of the schema
ReservePlaces == POSITION_REQUIREMENTS["BENCH"].min

\* the members of the selected list that the two reserve passes picked
ReservePicked ==
    Cardinality({ k \in 1..Len(selected_players) :
                    selected_by[k] \in { "bench", "bench_fallback" } })

\* C21: if, when the category phase ended, the R cheapest unselected rows
\* together cost no more than SALARY_CAP - total_spent, then after the
\* preferred-order pass and the price-ascending pass the reserve holds
\* exactly R members.
C21_ReserveFilledWhenAffordable ==
    (/\ pc = "create"
     /\ Len(UnselectedAfterCategories) >= ReservePlaces
     /\ NSmallestPriceSum(UnselectedAfterCategories, ReservePlaces)
            <= SALARY_CAP - SumPrice(CategoryPicks))
        => ReservePicked = ReservePlaces

\* C22: the price-ascending reserve pass never adds a member: no member of
\* the selected list was appended by it, and whenever it runs, every
\* unselected row has a price above the budget the preferred pass left.
C22_ReserveFallbackAddsNothing ==
    /\ "bench_fallback" \notin Passes
    /\ pc = "bench_fallback" =>
          \A k \in 1..Len(UnselectedFrame) : Price(UnselectedFrame[k]) > bench_budget

\* C22 witness: both reserve passes are over; the preferred pass took a
\* member and ended below R, and the fallback pass had unselected rows to
\* walk.
C22_Witness ==
    /\ pc = "create"
    /\ bench_count >= 1
    /\ bench_count < bench_needed
    /\ UnselectedFrame # << >>

(***************************************************************************)
(* Statements about the budget planner.                                    *)
(***************************************************************************)
\* the sets of N rows with distinct player_ids that meet every category minimum
RosterSets ==
    { S \in SUBSET (1..Len(players_df)) :
        /\ Cardinality(S) = RosterSize
        /\ \A i \in S : \A j \in S :
              players_df[i].player_id = players_df[j].player_id => i = j
        /\ \A pos \in Categories :
              Cardinality({ i \in S : players_df[i].position = pos })
                  >= POSITION_REQUIREMENTS[pos].min }

RECURSIVE SetPrice(_)
SetPrice(S) ==
    IF S = { } THEN 0
    ELSE LET i == CHOOSE i \in S : TRUE IN Price(i) + SetPrice(S \ { i })

\* C23: the planner's summed minimum cost counts no candidate twice, so
\* that, when the pool has N candidates and enough of every category,
\* buffer >= 0 implies that a set of N distinct candidates meeting every
\* category minimum with a total price <= SALARY_CAP exists.
C23_BufferMeansFeasible ==
    (/\ Planned
     /\ EnoughCandidates
     /\ Len(players_df) >= RosterSize
     /\ Buffer >= 0)
        => \E S \in RosterSets : SetPrice(S) <= SALARY_CAP

\* the ceilings have been computed
Allocated == DOMAIN position_budgets = Categories \cup { "BENCH" }

RowSet(frame) == { frame.rows[k] : k \in 1..Len(frame.rows) }

\* the caller holds the starting lineup and the bench of a returned roster
LineupRead ==
    /\ pc = "returned"
    /\ starting_df # None /\ "rows" \in DOMAIN starting_df
    /\ bench # None /\ "rows" \in DOMAIN bench

\* C25: of the c roster members of a category with active quota q, exactly
\* min(q, c) are in the starting lineup; no bench member of a category has
\* a strictly higher predicted_score than a starting member of it; and
\* every roster member is in exactly one of starting lineup and bench.
C25_LineupSplit ==
    LineupRead =>
        /\ \A pos \in Categories :
              LET c == Members(selected_team.rows, pos)
                  q == POSITION_REQUIREMENTS[pos].on_field
              IN  Members(starting_df.rows, pos) = IF q < c THEN q ELSE c
        /\ \A s \in RowSet(starting_df) : \A b \in RowSet(bench) :
              players_df[s].position = players_df[b].position
                  => players_df[b].predicted_score <= players_df[s].predicted_score
        /\ RowSet(starting_df) \cap RowSet(bench) = { }
        /\ RowSet(starting_df) \cup RowSet(bench) = RowSet(selected_team)
        /\ Len(starting_df.rows) + Len(bench.rows) = Len(selected_team.rows)

\* C25 witness: a returned roster with more members of a category than its
\* active quota, so that the bench holds a member of a category of which
\* the starting lineup holds the quota, with a lower predicted_score.
C25_Witness ==
    /\ LineupRead
    /\ \E s \in RowSet(starting_df) : \E b \in RowSet(bench) :
          /\ players_df[s].position = players_df[b].position
          /\ players_df[b].predicted_score < players_df[s].predicted_score
          /\ Members(starting_df.rows, players_df[s].position)
                = POSITION_REQUIREMENTS[players_df[s].position].on_field

(***************************************************************************)
(* Statements about the greedy optimizer's roster.                         *)
(***************************************************************************)
\* the caller holds the starting lineup and the bench of a returned roster
\* of the greedy optimizer
GreedyLineupRead ==
    /\ pc = "returned"
    /\ "onfield" \in DOMAIN selected_team
    /\ starting_df # None /\ "rows" \in DOMAIN starting_df
    /\ bench # None /\ "rows" \in DOMAIN bench

\* C26: the label of a roster member of the greedy optimizer follows the
\* ranking of its category by predicted_score, not the phase that selected
\* it: when a member selected in the bench phase has a higher
\* predicted_score than a phase-1 member of the same category,
\* get_starting_lineup returns the former and get_bench_players the latter.
C26_LabelsFollowRanking ==
    GreedyLineupRead =>
        \A i \in 1..Len(selected_players) : \A j \in 1..Len(selected_players) :
            ( /\ selected_by[i] = "phase2"
              /\ selected_by[j] = "phase1"
              /\ players_df[selected_players[i]].position
                    = players_df[selected_players[j]].position
              /\ players_df[selected_players[i]].predicted_score
                    > players_df[selected_players[j]].predicted_score )
                => /\ selected_players[i] \in RowSet(starting_df)
                   /\ selected_players[j] \in RowSet(bench)

\* the members of the selected list of a position that a phase selected
GreedyPicked(phases, pos) ==
    Cardinality({ k \in 1..Len(selected_players) :
                    /\ selected_by[k] \in phases
                    /\ players_df[selected_players[k]].position = pos })

BenchCandidates ==
    { i \in 1..Len(players_df) :
        /\ players_df[i].player_id \notin SelectedIds
        /\ Price(i) <= remaining_budget
        /\ position_counts[players_df[i].position]
              < POSITION_REQUIREMENTS[players_df[i].position].max }

\* C28: the bench phase of the greedy optimizer accepts a player only while
\* fewer than BENCH_SIZE are on the bench and ends with the step that puts
\* the BENCH_SIZE-th there; and when it ends with fewer, no unselected
\* candidate has both a price <= remaining_budget and a position whose
\* count is below that position's max.
C28_GreedyBenchPhase ==
    [][ pc = "g_phase2" =>
          /\ Accepting => bench_count < bench_size
          /\ bench_count' >= bench_size => pc' = "g_create"
          /\ (pc' = "g_create" /\ bench_count' < bench_size) =>
                /\ iter_at > Len(iter_df)
                /\ BenchCandidates = { } ]_vars

\* C28 witness: the bench phase has ended with a bench member but fewer
\* than BENCH_SIZE, and with candidates left unselected.
C28_Witness ==
    /\ pc = "g_create"
    /\ bench_count >= 1
    /\ bench_count < bench_size
    /\ Len(selected_players) < Len(players_df)

(***************************************************************************)
(* Statements about errors.                                                *)
(***************************************************************************)
\* C29: on a TeamOptimizer whose optimize_team has never returned a roster
\* (here: the first call made on it has raised), selected_team is None and
\* get_starting_lineup and get_bench_players raise ValueError: a call that
\* raises part-way leaves no roster behind.
C29_NoRosterBeforeReturn ==
    (fresh /\ pc = "raised") =>
        /\ selected_team = None
        /\ starting_df # None => starting_df = Raise("ValueError")
        /\ bench # None => bench = Raise("ValueError")

\* C30: against the shipped schema every entry the run reads is defined,
\* the reserve entry 'BENCH' included, so that a call does not end on a
\* missing-entry error before the selection phases: if it raises at all,
\* it has planned the reserve and set up its counters before.
C30_ShippedSchemaIsComplete ==
    (POSITION_REQUIREMENTS = SHIPPED_REQUIREMENTS /\ pc = "raised")
        => /\ "BENCH" \in DOMAIN POSITION_REQUIREMENTS
           /\ Planned
           /\ Allocated

====
